---- MODULE Spec2Model ----
(***************************************************************************)
(* Model of bc-tracker: the SQLite store written by bc_tracker.py (posts,  *)
(* mentions, side_effects, comments, scrape_runs, scrape_errors), the      *)
(* classification helpers it calls, the aggregation queries that read it,  *)
(* and the Scheduler of bc_tracker_web.py.                                 *)
(*                                                                         *)
(* Encodings.                                                              *)
(*  - A text is a sequence of lowercase tokens; the token NL stands for a  *)
(*    line break, every other token is a word separated by blanks.         *)
(*  - A sentiment is a reduced fraction <<num, den>>, den > 0; SQL NULL /  *)
(*    Python None is NoneSent = <<0, 0>>.                                  *)
(*  - An engagement score e is stored as the integer 2^(2e): for          *)
(*    a = max(score,1), b = max(num_comments,1) this is a^2 * b^3, since   *)
(*    log2(a) + 1.5*log2(b) = log2(a^2 * b^3) / 2.  The encoding is        *)
(*    strictly increasing, so MAX, comparisons and "= 0" (encoded 1) are   *)
(*    exact.                                                               *)
(*  - Wall-clock columns (first_seen, scraped_at, timestamp) are dropped.  *)
(***************************************************************************)
EXTENDS Integers, Sequences, FiniteSets, Bags, TLC

(***************************************************************************)
(* Bounds of the model.                                                    *)
(***************************************************************************)
MaxRuns == 2
MaxErrors == 1
MaxTimers == 4
MaxLen == 3
MaxCount == 5

None == "None"
NoneSent == <<0, 0>>
NL == "NL"

(***************************************************************************)
(* Lexicons and patterns, restricted to the model's vocabulary.            *)
(***************************************************************************)
Vocabulary == {"love", "pain", "not", "no", "very", "it", "iud", "mirena",
               "depo", "cramping", NL}

_POSITIVE_WORDS == {"love"}
_NEGATIVE_WORDS == {"pain"}
_INTENSIFIERS == {"very"}
_NEGATORS == {"not", "no"}

IUDBrandWords == {"mirena"}

Max(a, b) == IF a >= b THEN a ELSE b
Min(a, b) == IF a <= b THEN a ELSE b
Abs(a) == IF a >= 0 THEN a ELSE 0 - a

RECURSIVE GCD(_, _)
GCD(a, b) == IF b = 0 THEN a ELSE GCD(b, a % b)

\* re.findall(r"[a-z']+", text.lower()): the words of a text, line breaks dropped.
Words(text) == SelectSeq(text, LAMBDA t : t # NL)

\* A scoring loop whose negator branch also resets the intensity.
SentimentStep_NegatorResets(st, word) ==
    IF word \in _NEGATORS THEN [st EXCEPT !.negate = TRUE, !.intensify = 2]
    ELSE IF word \in _INTENSIFIERS THEN [st EXCEPT !.intensify = 3]
    ELSE IF word \in _POSITIVE_WORDS THEN
        [pos |-> IF st.negate THEN st.pos ELSE st.pos + st.intensify,
         neg |-> IF st.negate THEN st.neg + st.intensify ELSE st.neg,
         negate |-> FALSE, intensify |-> 2]
    ELSE IF word \in _NEGATIVE_WORDS THEN
        [pos |-> IF st.negate THEN st.pos + st.intensify ELSE st.pos,
         neg |-> IF st.negate THEN st.neg ELSE st.neg + st.intensify,
         negate |-> FALSE, intensify |-> 2]
    ELSE [st EXCEPT !.negate = FALSE, !.intensify = 2]

\* One iteration of the scoring loop; tallies are kept doubled (1.0 -> 2, 1.5 -> 3).
SentimentStep(st, word) ==
    IF word \in _NEGATORS THEN [st EXCEPT !.negate = TRUE]
    ELSE IF word \in _INTENSIFIERS THEN [st EXCEPT !.intensify = 3]
    ELSE IF word \in _POSITIVE_WORDS THEN
        [pos |-> IF st.negate THEN st.pos ELSE st.pos + st.intensify,
         neg |-> IF st.negate THEN st.neg + st.intensify ELSE st.neg,
         negate |-> FALSE, intensify |-> 2]
    ELSE IF word \in _NEGATIVE_WORDS THEN
        [pos |-> IF st.negate THEN st.pos + st.intensify ELSE st.pos,
         neg |-> IF st.negate THEN st.neg ELSE st.neg + st.intensify,
         negate |-> FALSE, intensify |-> 2]
    ELSE [st EXCEPT !.negate = FALSE, !.intensify = 2]

RECURSIVE SentimentRun(_, _)
SentimentRun(st, words) ==
    IF words = <<>> THEN st
    ELSE SentimentRun(SentimentStep(st, Head(words)), Tail(words))

SentimentInit == [pos |-> 0, neg |-> 0, negate |-> FALSE, intensify |-> 2]

\* max(-1.0, min(1.0, raw)) on a fraction num/den with den > 0.
Clamp(num, den) ==
    IF num > den THEN <<1, 1>>
    ELSE IF num < 0 - den THEN <<-1, 1>>
    ELSE LET g == GCD(Abs(num), den) IN <<num \div g, den \div g>>

\* A scorer that reports no signal when the two tallies cancel out.
score_sentiment_NetZeroIsNone(text) ==
    LET words == Words(text)
        st == SentimentRun(SentimentInit, words)
    IN IF words = <<>> THEN NoneSent
       ELSE IF st.pos - st.neg = 0 THEN NoneSent
       ELSE Clamp(st.pos - st.neg, st.pos + st.neg)

score_sentiment(text) ==
    LET words == Words(text)
        st == SentimentRun(SentimentInit, words)
        total == st.pos + st.neg
    IN IF words = <<>> THEN NoneSent
       ELSE IF total = 0 THEN NoneSent
       ELSE Clamp(st.pos - st.neg, total)

\* Does a brand word occur after position i, before the next line break?
\* ('.' in the lookahead (?!.*(?:mirena|...)) does not cross a line break.)
RECURSIVE BrandAhead(_, _)
BrandAhead(text, i) ==
    IF i > Len(text) THEN FALSE
    ELSE IF text[i] = NL THEN FALSE
    ELSE IF text[i] \in IUDBrandWords THEN TRUE
    ELSE BrandAhead(text, i + 1)

CONTRACEPTIVES == {"Mirena", "IUD (general)", "Depo-Provera"}

PatternMatches(name, text) ==
    CASE name = "Mirena" -> \E i \in 1..Len(text) : text[i] = "mirena"
      [] name = "IUD (general)" ->
            \E i \in 1..Len(text) : text[i] = "iud" /\ ~BrandAhead(text, i + 1)
      [] name = "Depo-Provera" -> \E i \in 1..Len(text) : text[i] = "depo"
      [] OTHER -> FALSE

find_mentions(text) == {name \in CONTRACEPTIVES : PatternMatches(name, text)}

SIDE_EFFECTS == {"Cramping"}

find_side_effects(text) ==
    {name \in SIDE_EFFECTS : name = "Cramping" /\ \E i \in 1..Len(text) : text[i] = "cramping"}

\* f"{title} {selftext}"
JoinText(title, selftext) == title \o selftext

\* An engagement score whose vote term is not floored at 1.
compute_engagement_NoFloor(score, num_comments) ==
    LET b == Max(num_comments, 1)
    IN score * score * b * b * b

compute_engagement(score, num_comments) ==
    LET a == Max(score, 1)
        b == Max(num_comments, 1)
    IN a * a * b * b * b

(***************************************************************************)
(* The store.  A store value holds the six relations of get_db; posts and  *)
(* comments are functions from the primary key to the row, mentions and    *)
(* side_effects are bags of key tuples, scrape_runs and scrape_errors are  *)
(* sequences in rowid order.  Four history fields ride along with the      *)
(* relations so that they are committed and rolled back with them:         *)
(* seen_eng (id -> highest engagement any save_posts_to_db observation of  *)
(* id computed), last_obs (id -> what the latest such observation          *)
(* carried), legacy (ids inserted by migrate_legacy_json) and torn (ids    *)
(* written by a save_posts_to_db call that raised before its commit).      *)
(***************************************************************************)
PostIds == {"p1", "p2"}
CommentOf == [p \in PostIds |-> IF p = "p1" THEN "c1" ELSE "c2"]
SUBREDDITS == <<"birthcontrol", "TwoXChromosomes">>
Day == 86400
CreatedOf == [p \in PostIds |-> IF p = "p1" THEN Day ELSE 2 * Day]
CrosspostParentOf == [p \in PostIds |-> IF p = "p1" THEN None ELSE "par"]

get_db_schema ==
    [posts |-> <<>>, mentions |-> EmptyBag, side_effects |-> EmptyBag,
     comments |-> <<>>, scrape_runs |-> <<>>, scrape_errors |-> <<>>,
     seen_eng |-> <<>>, last_obs |-> <<>>, legacy |-> {}, torn |-> {}]

\* A plain INSERT on a relation without its PRIMARY KEY: the row is added again.
InsertOrIgnore_NoKey(rel, key) == rel (+) SetToBag({key})

\* INSERT OR IGNORE under the relation's PRIMARY KEY.
InsertOrIgnore(rel, key) == IF BagIn(key, rel) THEN rel ELSE rel (+) SetToBag({key})

RECURSIVE InsertAll(_, _)
InsertAll(rel, keys) ==
    IF keys = {} THEN rel
    ELSE LET k == CHOOSE x \in keys : TRUE
         IN InsertAll(InsertOrIgnore(rel, k), keys \ {k})

\* Did INSERT OR IGNORE of any of the keys insert a row (sqlite3_last_insert_rowid moved)?
AnyInserted(rel, keys) == \E k \in keys : ~BagIn(k, rel)

\* engagement_score = excluded.engagement_score: the latest reading wins.
SqlMax_LastWrite(a, b) == b

\* SQLite scalar MAX(a, b) on engagement scores.
SqlMax(a, b) == IF a >= b THEN a ELSE b

\* sort_source = excluded.sort_source: the latest listing wins.
MergeSortSource_Overwrite(stored, excluded) == excluded

\* CASE WHEN excluded.sort_source = 'hot' THEN 'hot' ELSE posts.sort_source END
MergeSortSource(stored, excluded) == IF excluded = "hot" THEN "hot" ELSE stored

\* analyze_posts: {post_id: mentions}, a later post of the same id overwriting
\* an earlier one, posts without mentions leaving no key.
RECURSIVE analyze_posts(_)
analyze_posts(posts) ==
    IF posts = <<>> THEN <<>>
    ELSE LET n == Len(posts)
             post == posts[n]
             rest == analyze_posts(SubSeq(posts, 1, n - 1))
             mentions == find_mentions(JoinText(post.title, post.selftext))
         IN IF mentions = {} THEN rest ELSE (post.id :> mentions) @@ rest

MentionMapGet(mention_map, id) == IF id \in DOMAIN mention_map THEN mention_map[id] ELSE {}

\* An update arm that forgets num_comments = excluded.num_comments.
UpdatePostRow_StaleComments(row, post, sent, eng) ==
    [row EXCEPT !.score = post.score,
                !.sentiment = sent,
                !.engagement_score = SqlMax(row.engagement_score, eng),
                !.sort_source = MergeSortSource(row.sort_source, post.sort_source)]

\* The ON CONFLICT(id) DO UPDATE arm of the posts upsert.
UpdatePostRow(row, post, sent, eng) ==
    [row EXCEPT !.score = post.score,
                !.num_comments = post.num_comments,
                !.sentiment = sent,
                !.engagement_score = SqlMax(row.engagement_score, eng),
                !.sort_source = MergeSortSource(row.sort_source, post.sort_source)]

\* The row the INSERT arm creates; comments_scraped takes its column default.
NewPostRow(post, sent, eng, subreddit) ==
    [title |-> post.title, selftext |-> post.selftext,
     created_utc |-> post.created_utc, score |-> post.score,
     num_comments |-> post.num_comments, permalink |-> post.permalink,
     sentiment |-> sent, subreddit |-> subreddit, engagement_score |-> eng,
     sort_source |-> post.sort_source, crosspost_parent |-> post.crosspost_parent,
     comments_scraped |-> 0]

\* One iteration of the loop of save_posts_to_db.  c is the call's running
\* state: the connection's view of the store, the connection's last insert
\* rowid (0 or nonzero, kept as 0/1), new_count, and the ids written so far.
\* With half = TRUE the iteration stops after the posts upsert (the next
\* statement raised).
SavePostStep(c, post, mention_map, half) ==
    LET s == c.store
        text == JoinText(post.title, post.selftext)
        sent == score_sentiment(text)
        effects == find_side_effects(text)
        eng == compute_engagement(post.score, post.num_comments)
        xpost == post.crosspost_parent
        absent == post.id \notin DOMAIN s.posts
        row == IF absent THEN NewPostRow(post, sent, eng, post.subreddit)
               ELSE UpdatePostRow(s.posts[post.id], post, sent, eng)
        rowid1 == IF absent THEN 1 ELSE c.lastrowid
        mkeys == {<<post.id, ctype>> : ctype \in MentionMapGet(mention_map, post.id)}
        ekeys == {<<"post", post.id, e>> : e \in effects}
        skip == xpost # None \/ half
        seen == IF post.id \in DOMAIN s.seen_eng
                THEN Max(s.seen_eng[post.id], eng) ELSE eng
        obs == [score |-> post.score, num_comments |-> post.num_comments,
                sentiment |-> score_sentiment(JoinText(post.title, post.selftext)),
                sort_source |-> post.sort_source]
    IN [store |-> [s EXCEPT
                     !.posts = (post.id :> row) @@ s.posts,
                     !.mentions = IF skip THEN @ ELSE InsertAll(@, mkeys),
                     !.side_effects = IF skip THEN @ ELSE InsertAll(@, ekeys),
                     !.seen_eng = (post.id :> seen) @@ s.seen_eng,
                     !.last_obs = (post.id :> obs) @@ s.last_obs],
        lastrowid |-> IF skip THEN rowid1
                      ELSE IF AnyInserted(s.mentions, mkeys) \/ AnyInserted(s.side_effects, ekeys)
                           THEN 1 ELSE rowid1,
        new_count |-> IF rowid1 # 0 THEN c.new_count + 1 ELSE c.new_count,
        written |-> c.written \cup {post.id}]

RECURSIVE SavePostsLoop(_, _, _)
SavePostsLoop(c, posts, mention_map) ==
    IF posts = <<>> THEN c
    ELSE SavePostsLoop(SavePostStep(c, Head(posts), mention_map, FALSE), Tail(posts), mention_map)

SaveCall(store, rowid) ==
    [store |-> store, lastrowid |-> rowid, new_count |-> 0, written |-> {}]

\* A save that keeps one scrape_runs row, the one of the latest batch.
save_posts_to_db_OneRunRow(store, rowid, posts, mention_map, subreddit) ==
    LET c == SavePostsLoop(SaveCall(store, rowid), posts, mention_map)
    IN [c EXCEPT !.store.scrape_runs =
                     <<[post_count |-> Len(posts), subreddit |-> subreddit]>>,
                 !.lastrowid = 1]

\* save_posts_to_db when every statement succeeds: the loop, the scrape_runs
\* row, the commit.
save_posts_to_db(store, rowid, posts, mention_map, subreddit) ==
    LET c == SavePostsLoop(SaveCall(store, rowid), posts, mention_map)
    IN [c EXCEPT !.store.scrape_runs =
                     Append(@, [post_count |-> Len(posts), subreddit |-> subreddit]),
                 !.lastrowid = 1]

\* save_posts_to_db when a statement raises: the posts of prefix were
\* processed; with half = TRUE the posts upsert of one more post, last, ran
\* too and its next statement raised.  Nothing is committed or rolled back.
save_posts_to_db_raises(store, rowid, prefix, last, half, mention_map) ==
    LET c == SavePostsLoop(SaveCall(store, rowid), prefix, mention_map)
        d == IF half THEN SavePostStep(c, last, mention_map, TRUE) ELSE c
    IN [d EXCEPT !.store.torn = @ \cup d.written]

\* One iteration of the loop of save_comments_to_db.
SaveCommentStep(c, post_id, cm) ==
    LET s == c.store
        sent == score_sentiment(cm.body)
        absent == cm.id \notin DOMAIN s.comments
        row == IF absent
               THEN [post_id |-> post_id, body |-> cm.body, score |-> cm.score,
                     created_utc |-> cm.created_utc, sentiment |-> sent]
               ELSE [s.comments[cm.id] EXCEPT !.score = cm.score, !.sentiment = sent]
        rowid1 == IF absent THEN 1 ELSE c.lastrowid
        mkeys == {<<post_id, ctype>> : ctype \in find_mentions(cm.body)}
        ekeys == {<<"comment", cm.id, e>> : e \in find_side_effects(cm.body)}
    IN [store |-> [s EXCEPT
                     !.comments = (cm.id :> row) @@ s.comments,
                     !.mentions = InsertAll(@, mkeys),
                     !.side_effects = InsertAll(@, ekeys)],
        lastrowid |-> IF AnyInserted(s.mentions, mkeys) \/ AnyInserted(s.side_effects, ekeys)
                      THEN 1 ELSE rowid1,
        new_count |-> IF rowid1 # 0 THEN c.new_count + 1 ELSE c.new_count]

RECURSIVE SaveCommentsLoop(_, _, _)
SaveCommentsLoop(c, post_id, comments) ==
    IF comments = <<>> THEN c
    ELSE SaveCommentsLoop(SaveCommentStep(c, post_id, Head(comments)), post_id, Tail(comments))

MarkCommentsScraped(posts, post_id) ==
    IF post_id \in DOMAIN posts
    THEN [posts EXCEPT ![post_id].comments_scraped = 1] ELSE posts

\* save_comments_to_db up to its commit.
save_comments_to_db(store, rowid, post_id, comments) ==
    LET c == SaveCommentsLoop([store |-> store, lastrowid |-> rowid, new_count |-> 0],
                              post_id, comments)
    IN [c EXCEPT !.store.posts = MarkCommentsScraped(@, post_id)]

\* The posts scrape_comments_batch selects.
CommentCandidates(store) ==
    {id \in DOMAIN store.posts :
        /\ \E k \in BagToSet(store.mentions) : k[1] = id
        /\ store.posts[id].comments_scraped = 0
        /\ store.posts[id].permalink # ""}

\* The loop of scrape_comments_batch over rows, fetched[id] being what
\* scrape_comments_for_post returned for id.
RECURSIVE ScrapeCommentsLoop(_, _, _)
ScrapeCommentsLoop(c, rows, fetched) ==
    IF rows = <<>> THEN c
    ELSE LET id == Head(rows)
             d == IF fetched[id] # <<>>
                  THEN LET r == save_comments_to_db(c.store, c.lastrowid, id, fetched[id])
                       IN [store |-> r.store, lastrowid |-> r.lastrowid,
                           new_count |-> c.new_count + r.new_count]
                  ELSE [c EXCEPT !.store.posts = MarkCommentsScraped(@, id)]
         IN ScrapeCommentsLoop(d, Tail(rows), fetched)

\* ORDER BY p.created_utc DESC
OrderedByCreatedDesc(store, rows) ==
    \A i, j \in 1..Len(rows) :
        i < j => store.posts[rows[i]].created_utc >= store.posts[rows[j]].created_utc

Orderings(S) == {q \in UNION {[1..n -> S] : n \in {Cardinality(S)}} :
                    \A i, j \in DOMAIN q : i # j => q[i] # q[j]}

\* The INSERT OR IGNORE pairs of migrate_legacy_json, one per (ctype, post) of a day.
RECURSIVE MigratePosts(_, _)
MigratePosts(s, todo) ==
    IF todo = <<>> THEN s
    ELSE LET e == Head(todo)
             p == e.post
             row == [title |-> p.title, selftext |-> <<>>, created_utc |-> 0,
                     score |-> p.score, num_comments |-> p.num_comments,
                     permalink |-> p.permalink, sentiment |-> NoneSent,
                     subreddit |-> "birthcontrol", engagement_score |-> 1,
                     sort_source |-> "new", crosspost_parent |-> None,
                     comments_scraped |-> 0]
             absent == p.id \notin DOMAIN s.posts
         IN MigratePosts(
                [s EXCEPT !.posts = IF absent THEN (p.id :> row) @@ @ ELSE @,
                          !.legacy = IF absent THEN @ \cup {p.id} ELSE @,
                          !.mentions = InsertOrIgnore(@, <<p.id, e.ctype>>)],
                Tail(todo))

\* migrate_legacy_json past its two early returns, for a legacy file of one
\* day; top_posts is flattened to a sequence of [ctype, post].
migrate_legacy_json(store, day) ==
    MigratePosts(
        [store EXCEPT !.scrape_runs =
             Append(@, [post_count |-> day.total_posts, subreddit |-> "birthcontrol"])],
        day.top_posts)

\* The three passes of backfill_sentiment_and_effects over the connection's
\* view of the store.
BackfillSentimentRows(s) ==
    {id \in DOMAIN s.posts : s.posts[id].sentiment = NoneSent /\ s.posts[id].selftext # <<>>}

BackfillSentiment(s) ==
    LET rows == BackfillSentimentRows(s)
        ekeys == UNION {{<<"post", id, e>> :
                          e \in find_side_effects(JoinText(s.posts[id].title, s.posts[id].selftext))}
                        : id \in rows}
    IN [s EXCEPT
          !.posts = [id \in DOMAIN s.posts |->
                        IF id \in rows
                        THEN [s.posts[id] EXCEPT !.sentiment =
                                 score_sentiment(JoinText(s.posts[id].title, s.posts[id].selftext))]
                        ELSE s.posts[id]],
          !.side_effects = InsertAll(@, ekeys)]

BackfillEngagementRows(s) == {id \in DOMAIN s.posts : s.posts[id].engagement_score = 1}

BackfillEngagement(s) ==
    [s EXCEPT !.posts = [id \in DOMAIN s.posts |->
                            IF id \in BackfillEngagementRows(s)
                            THEN [s.posts[id] EXCEPT !.engagement_score =
                                     compute_engagement(s.posts[id].score, s.posts[id].num_comments)]
                            ELSE s.posts[id]]]

BackfillMentionKeys(s) ==
    UNION {{<<id, ctype>> :
              ctype \in find_mentions(JoinText(s.posts[id].title, s.posts[id].selftext))}
           : id \in {i \in DOMAIN s.posts :
                        s.posts[i].selftext # <<>> /\ s.posts[i].crosspost_parent = None}}

backfill_sentiment_and_effects(store, rowid) ==
    LET s1 == BackfillSentiment(store)
        s2 == BackfillEngagement(s1)
        mkeys == BackfillMentionKeys(s2)
        s3 == [s2 EXCEPT !.mentions = InsertAll(@, mkeys)]
    IN [store |-> s3,
        lastrowid |-> IF AnyInserted(s2.mentions, mkeys)
                         \/ s1.side_effects # store.side_effects THEN 1 ELSE rowid,
        committed |-> \/ BackfillSentimentRows(store) # {}
                      \/ BackfillEngagementRows(s1) # {}
                      \/ AnyInserted(s2.mentions, mkeys)]

save_error_to_db(store, subreddit, error_type) ==
    [store EXCEPT !.scrape_errors =
        Append(@, [subreddit |-> subreddit, error_type |-> error_type])]

(***************************************************************************)
(* Aggregation queries.  A query reads a store value; date_from / date_to  *)
(* are epoch seconds or NoDate (Python None), subreddit a name or None.    *)
(* A result is the set of rows as a function from the GROUP BY key.        *)
(***************************************************************************)
NoDate == -1

\* The WHERE clauses every query appends for date_from, date_to and subreddit.
DateFilter(created_utc, date_from, date_to) ==
    /\ date_from # NoDate => created_utc >= date_from
    /\ date_to # NoDate => created_utc <= date_to

SubredditFilter(sub, subreddit) == subreddit # None => sub = subreddit

\* COUNT(*) over the rows of a bag whose key is in keys.
CountRows(rel, keys) == BagCardinality([k \in keys |-> rel[k]])

\* The mentions rows that survive JOIN posts p ON p.id = m.post_id and the filters.
JoinedMentions(store, date_from, date_to, subreddit) ==
    {k \in BagToSet(store.mentions) :
        /\ k[1] \in DOMAIN store.posts
        /\ DateFilter(store.posts[k[1]].created_utc, date_from, date_to)
        /\ SubredditFilter(store.posts[k[1]].subreddit, subreddit)}

query_mention_counts(store, date_from, date_to, subreddit) ==
    LET need_join == date_from # NoDate \/ date_to # NoDate \/ subreddit # None
        rows == IF need_join THEN JoinedMentions(store, date_from, date_to, subreddit)
                ELSE BagToSet(store.mentions)
        cats == {k[2] : k \in rows}
    IN [c \in cats |-> CountRows(store.mentions, {k \in rows : k[2] = c})]

\* date(p.created_utc, 'unixepoch'), as the number of the day since the epoch.
DayOf(created_utc) == created_utc \div Day

\* A daily series with a key for the day of every stored post, zero-filled.
query_daily_counts_ZeroFilled(store, date_from, date_to, subreddit) ==
    LET rows == {k \in JoinedMentions(store, date_from, date_to, subreddit) :
                    store.posts[k[1]].created_utc > 0}
        days == {DayOf(store.posts[id].created_utc) : id \in DOMAIN store.posts}
    IN [d \in days |->
          LET drows == {k \in rows : DayOf(store.posts[k[1]].created_utc) = d}
          IN [c \in {k[2] : k \in rows} |->
                CountRows(store.mentions, {k \in drows : k[2] = c})]]

query_daily_counts(store, date_from, date_to, subreddit) ==
    LET rows == {k \in JoinedMentions(store, date_from, date_to, subreddit) :
                    store.posts[k[1]].created_utc > 0}
        days == {DayOf(store.posts[k[1]].created_utc) : k \in rows}
    IN [d \in days |->
          LET drows == {k \in rows : DayOf(store.posts[k[1]].created_utc) = d}
          IN [c \in {k[2] : k \in drows} |->
                CountRows(store.mentions, {k \in drows : k[2] = c})]]

\* Sum of the fractions sentiment[k], k in keys, each taken copies[k] times.
RECURSIVE SumFractions(_, _, _)
SumFractions(keys, sentiment, copies) ==
    IF keys = {} THEN <<0, 1>>
    ELSE LET k == CHOOSE x \in keys : TRUE
             r == SumFractions(keys \ {k}, sentiment, copies)
             f == sentiment[k]
         IN <<r[1] * f[2] + copies[k] * f[1] * r[2], r[2] * f[2]>>

\* round(x, 3) of x = num/den (den > 0), in thousandths, ties to even.
Round3(num, den) ==
    LET n == 1000 * num
        q == n \div den
        r == n % den
    IN IF 2 * r < den THEN q
       ELSE IF 2 * r > den THEN q + 1
       ELSE IF q % 2 = 0 THEN q ELSE q + 1

\* The query without its HAVING cnt >= 2 clause.
query_sentiment_by_type_NoMinimum(store, date_from, date_to, subreddit) ==
    LET rows == {k \in JoinedMentions(store, date_from, date_to, subreddit) :
                    store.posts[k[1]].sentiment # NoneSent}
        cnt(c) == CountRows(store.mentions, {k \in rows : k[2] = c})
        cats == {k[2] : k \in rows}
    IN [c \in cats |->
          LET crows == {k \in rows : k[2] = c}
              total == SumFractions(crows, [k \in crows |-> store.posts[k[1]].sentiment],
                                    [k \in crows |-> CopiesIn(k, store.mentions)])
          IN [avg_s |-> Round3(total[1], total[2] * cnt(c)), cnt |-> cnt(c)]]

query_sentiment_by_type(store, date_from, date_to, subreddit) ==
    LET rows == {k \in JoinedMentions(store, date_from, date_to, subreddit) :
                    store.posts[k[1]].sentiment # NoneSent}
        cnt(c) == CountRows(store.mentions, {k \in rows : k[2] = c})
        cats == {c \in {k[2] : k \in rows} : cnt(c) >= 2}
    IN [c \in cats |->
          LET crows == {k \in rows : k[2] = c}
              total == SumFractions(crows, [k \in crows |-> store.posts[k[1]].sentiment],
                                    [k \in crows |-> CopiesIn(k, store.mentions)])
          IN [avg_s |-> Round3(total[1], total[2] * cnt(c)), cnt |-> cnt(c)]]

\* Rows of the first SELECT of the heatmap: a post's side effect joined to the
\* post's mentions; each row is <<contraceptive, effect, source_id>>.
HeatmapPostRows(store, date_from, date_to, subreddit) ==
    UNION {{<<m[2], se[3], se[2]>> :
              se \in {e \in BagToSet(store.side_effects) :
                         /\ e[1] = "post"
                         /\ e[2] \in DOMAIN store.posts
                         /\ e[2] = m[1]
                         /\ store.posts[e[2]].created_utc > 0
                         /\ DateFilter(store.posts[e[2]].created_utc, date_from, date_to)
                         /\ SubredditFilter(store.posts[e[2]].subreddit, subreddit)}}
           : m \in BagToSet(store.mentions)}

\* Rows of the second SELECT: a comment's side effect joined to the mentions
\* of the comment's post.
HeatmapCommentRows(store, date_from, date_to, subreddit) ==
    UNION {{<<m[2], se[3], se[2]>> :
              se \in {e \in BagToSet(store.side_effects) :
                         /\ e[1] = "comment"
                         /\ e[2] \in DOMAIN store.comments
                         /\ store.comments[e[2]].post_id = m[1]
                         /\ store.comments[e[2]].created_utc > 0
                         /\ DateFilter(store.comments[e[2]].created_utc, date_from, date_to)
                         /\ (subreddit # None =>
                               /\ m[1] \in DOMAIN store.posts
                               /\ store.posts[m[1]].subreddit = subreddit)}}
           : m \in BagToSet(store.mentions)}

\* COUNT(DISTINCT se.source_id) per (contraceptive, effect), summed over both SELECTs.
query_side_effects_by_contraceptive(store, date_from, date_to, subreddit) ==
    LET prow == HeatmapPostRows(store, date_from, date_to, subreddit)
        crow == HeatmapCommentRows(store, date_from, date_to, subreddit)
        keys == {<<r[1], r[2]>> : r \in prow \cup crow}
    IN [g \in keys |->
          Cardinality({r[3] : r \in {x \in prow : x[1] = g[1] /\ x[2] = g[2]}})
            + Cardinality({r[3] : r \in {x \in crow : x[1] = g[1] /\ x[2] = g[2]}})]

\* The side_effects rows left by the two LEFT JOINs, the optional JOIN on
\* mentions and the WHERE clauses: COALESCE takes the post's columns for a
\* 'post' row and the comment's (the subreddit of the comment's post) for a
\* 'comment' row; a row whose source is missing compares as NULL and drops out.
SideEffectRows(store, date_from, date_to, contraceptive, subreddit) ==
    LET need_filter == \/ date_from # NoDate \/ date_to # NoDate
                       \/ contraceptive # None \/ subreddit # None
        isPost(k) == k[1] = "post" /\ k[2] \in DOMAIN store.posts
        isComment(k) == k[1] = "comment" /\ k[2] \in DOMAIN store.comments
        parent(k) == IF isPost(k) THEN k[2] ELSE store.comments[k[2]].post_id
        created(k) == IF isPost(k) THEN store.posts[k[2]].created_utc
                      ELSE store.comments[k[2]].created_utc
        kept(k) ==
            /\ (date_from # NoDate \/ date_to # NoDate) =>
                  /\ isPost(k) \/ isComment(k)
                  /\ DateFilter(created(k), date_from, date_to)
            /\ contraceptive # None =>
                  /\ isPost(k) \/ isComment(k)
                  /\ BagIn(<<parent(k), contraceptive>>, store.mentions)
            /\ subreddit # None =>
                  /\ isPost(k) \/ isComment(k)
                  /\ parent(k) \in DOMAIN store.posts
                  /\ store.posts[parent(k)].subreddit = subreddit
    IN IF need_filter THEN {k \in BagToSet(store.side_effects) : kept(k)}
       ELSE BagToSet(store.side_effects)

\* SELECT se.effect, COUNT(DISTINCT se.source_id) ... GROUP BY se.effect
query_side_effect_counts(store, date_from, date_to, contraceptive, subreddit) ==
    LET rows == SideEffectRows(store, date_from, date_to, contraceptive, subreddit)
    IN [e \in {k[3] : k \in rows} |->
          Cardinality({k[2] : k \in {r \in rows : r[3] = e}})]

(***************************************************************************)
(* Inputs.                                                                 *)
(***************************************************************************)
Contents == {[title |-> <<"mirena">>, selftext |-> <<"love", "it">>,
              score |-> 4, num_comments |-> 2],
             [title |-> <<"iud">>, selftext |-> <<"no", "cramping">>,
              score |-> 8, num_comments |-> 0]}
SortSources == {"new", "hot"}
CommentBodies == {<<"depo", "cramping">>}

VARIABLES
    db,            \* the committed store, what any other connection reads
    tx,            \* the store as the writing connection sees it
    lastrowid,     \* sqlite3_last_insert_rowid of the writing connection, 0 or 1 (nonzero)
    ret,           \* outcome of the last store call
    running,       \* Scheduler.running
    cur_timer,     \* Scheduler._timer: ordinal of the latest Timer, 0 for None
    timers,        \* per Timer ordinal, where its thread stands
    last_run,      \* Scheduler.last_run
    next_run,      \* Scheduler.next_run
    httpPc,        \* where the request thread stands in run_now
    httpRet,       \* what run_now returned to the request handler
    arg,           \* the argument of a directly called function, None when unused
    out            \* what that call returned, None before the call

storeVars == <<db, tx, lastrowid, ret>>
schedVars == <<running, cur_timer, timers, last_run, next_run, httpPc, httpRet>>
callVars == <<arg, out>>
vars == <<db, tx, lastrowid, ret,
          running, cur_timer, timers, last_run, next_run, httpPc, httpRet, arg, out>>

\* A post dict as scrape_subreddit builds it.
Post(id, content, sort) ==
    [id |-> id, title |-> content.title, selftext |-> content.selftext,
     created_utc |-> CreatedOf[id], score |-> content.score,
     num_comments |-> content.num_comments, permalink |-> "/r/x",
     subreddit |-> SUBREDDITS[1], sort_source |-> sort,
     crosspost_parent |-> CrosspostParentOf[id]]

Observations == {Post(id, content, sort) :
                    id \in PostIds, content \in Contents, sort \in SortSources}

Batches == {<<a>> : a \in Observations} \cup {<<a, b>> : a \in Observations, b \in Observations}

\* The batches of the specification with store failures: one listing, one content.
FailObservations == {Post(id, content, "new") :
                        id \in PostIds, content \in {c \in Contents : c.score = 4}}

FailBatches == {<<a>> : a \in FailObservations}
                   \cup {<<a, b>> : a \in FailObservations, b \in FailObservations}

Comment(id, body) == [id |-> id, body |-> body, score |-> 1, created_utc |-> Day]

CommentLists(post_id) ==
    {<<>>} \cup {<<Comment(CommentOf[post_id], body)>> : body \in CommentBodies}

LegacyDays == {[total_posts |-> 1,
                top_posts |-> <<[ctype |-> "Depo-Provera",
                                 post |-> [id |-> id, title |-> <<"mirena">>, score |-> 4,
                                           num_comments |-> 2, permalink |-> "/r/x"]]>>]
               : id \in PostIds}

Idle == [op |-> "none", raised |-> FALSE, new_count |-> 0, ids |-> {}]

SchedInit ==
    /\ running = FALSE
    /\ cur_timer = 0
    /\ timers = <<>>
    /\ last_run = None
    /\ next_run = None
    /\ httpPc = "idle"
    /\ httpRet = None

NoCall == [op |-> "none"]

CallInit ==
    /\ arg = None
    /\ out = NoCall

StoreInit ==
    /\ db = get_db_schema
    /\ tx = get_db_schema
    /\ lastrowid = 0
    /\ ret = Idle

(***************************************************************************)
(* Store operations, called in any order on one writing connection.        *)
(***************************************************************************)

\* conn.close() of the previous caller (uncommitted changes are rolled back,
\* also when the connection is dropped by an exception), then get_db().
GetDb ==
    /\ tx' = db
    /\ lastrowid' = 0
    /\ ret' = Idle
    /\ UNCHANGED <<db, schedVars, callVars>>

SavePostsToDb(batches) ==
    \E posts \in batches :
        /\ Len(tx.scrape_runs) < MaxRuns
        /\ LET c == save_posts_to_db(tx, lastrowid, posts, analyze_posts(posts), SUBREDDITS[1])
           IN /\ tx' = c.store
              /\ db' = c.store
              /\ lastrowid' = c.lastrowid
              /\ ret' = [op |-> "save_posts", raised |-> FALSE,
                         new_count |-> c.new_count, ids |-> c.written]
        /\ UNCHANGED <<schedVars, callVars>>

\* The call raises at its statement number k+1 or, with half, inside post k+1.
SavePostsToDbRaises(batches) ==
    \E posts \in batches, k \in 0..2, half \in BOOLEAN :
        /\ Len(tx.scrape_runs) < MaxRuns
        /\ k <= Len(posts)
        /\ half => k < Len(posts)
        /\ LET c == save_posts_to_db_raises(tx, lastrowid, SubSeq(posts, 1, k),
                                            posts[Min(k + 1, Len(posts))], half,
                                            analyze_posts(posts))
           IN /\ tx' = c.store
              /\ lastrowid' = c.lastrowid
              /\ ret' = [op |-> "save_posts", raised |-> TRUE,
                         new_count |-> 0, ids |-> c.written]
        /\ UNCHANGED <<db, schedVars, callVars>>

ScrapeCommentsBatch ==
    \E fetched \in [PostIds -> UNION {CommentLists(p) : p \in PostIds}] :
        /\ \A p \in PostIds : fetched[p] \in CommentLists(p)
        /\ CommentCandidates(tx) # {}
        /\ \E rows \in Orderings(CommentCandidates(tx)) :
              /\ OrderedByCreatedDesc(tx, rows)
              /\ LET c == ScrapeCommentsLoop([store |-> tx, lastrowid |-> lastrowid, new_count |-> 0],
                                             rows, fetched)
                 IN /\ tx' = c.store
                    /\ db' = c.store
                    /\ lastrowid' = c.lastrowid
        /\ ret' = Idle
        /\ UNCHANGED <<schedVars, callVars>>

MigrateLegacyJson ==
    \E day \in LegacyDays :
        /\ Len(tx.scrape_runs) = 0
        /\ tx' = migrate_legacy_json(tx, day)
        /\ db' = tx'
        /\ lastrowid' = 1
        /\ ret' = Idle
        /\ UNCHANGED <<schedVars, callVars>>

BackfillSentimentAndEffects ==
    LET c == backfill_sentiment_and_effects(tx, lastrowid)
    IN /\ tx' = c.store
       /\ db' = IF c.committed THEN c.store ELSE db
       /\ lastrowid' = c.lastrowid
       /\ ret' = Idle
       /\ UNCHANGED <<schedVars, callVars>>

SaveErrorToDb ==
    /\ Len(tx.scrape_errors) < MaxErrors
    /\ tx' = save_error_to_db(tx, SUBREDDITS[1], "scrape_failure")
    /\ db' = tx'
    /\ lastrowid' = 1
    /\ ret' = Idle
    /\ UNCHANGED <<schedVars, callVars>>

StoreNext ==
    \/ GetDb
    \/ SavePostsToDb(Batches)
    \/ ScrapeCommentsBatch
    \/ MigrateLegacyJson
    \/ BackfillSentimentAndEffects

FailNext ==
    \/ GetDb
    \/ SavePostsToDb(FailBatches)
    \/ SavePostsToDbRaises(FailBatches)
    \/ BackfillSentimentAndEffects
    \/ SaveErrorToDb

Init == StoreInit /\ SchedInit /\ CallInit
Next == StoreNext
Spec == Init /\ [][Next]_vars

FailSpec == Init /\ [][FailNext]_vars

(***************************************************************************)
(* The Scheduler.  Each with self._lock block is one step; run_scrape is   *)
(* the span between a thread entering "scrape" and leaving it.  The        *)
(* request thread is the single thread of HTTPServer; every Timer that     *)
(* fires runs _run on a thread of its own.  Timestamps are abstracted:     *)
(* next_run is the ordinal of the Timer it announces, last_run is "set".   *)
(***************************************************************************)
TimerThreadsAt(pcs) == {i \in DOMAIN timers : timers[i] \in pcs}

\* Threads that have yet to call _schedule_next.
OwedSchedules ==
    Cardinality(TimerThreadsAt({"fired", "scrape", "finally", "schedule"}))
        + (IF httpPc \in {"scrape", "finally", "cancel", "schedule"} THEN 1 ELSE 0)

\* Passes in flight: threads inside run_scrape.
InFlight ==
    Cardinality(TimerThreadsAt({"scrape"})) + (IF httpPc = "scrape" THEN 1 ELSE 0)

\* Scheduler._schedule_next
_schedule_next(tm) ==
    /\ timers' = Append(tm, "pending")
    /\ cur_timer' = Len(tm) + 1
    /\ next_run' = Len(tm) + 1

\* Scheduler.start, called once by main before the server accepts requests.
Start ==
    /\ timers = <<>>
    /\ _schedule_next(timers)
    /\ UNCHANGED <<running, last_run, httpPc, httpRet>>
    /\ UNCHANGED <<storeVars, callVars>>

\* A pending Timer expires and starts its thread.
TimerFires ==
    \E i \in DOMAIN timers :
        /\ timers[i] = "pending"
        /\ Len(timers) + OwedSchedules < MaxTimers
        /\ timers' = [timers EXCEPT ![i] = "fired"]
        /\ UNCHANGED <<running, cur_timer, last_run, next_run, httpPc, httpRet>>
        /\ UNCHANGED <<storeVars, callVars>>

\* _run: with self._lock: self.running = True
RunEnter ==
    \E i \in DOMAIN timers :
        /\ timers[i] = "fired"
        /\ running' = TRUE
        /\ timers' = [timers EXCEPT ![i] = "scrape"]
        /\ UNCHANGED <<cur_timer, last_run, next_run, httpPc, httpRet>>
        /\ UNCHANGED <<storeVars, callVars>>

\* _run: run_scrape returned; last_run is set.
RunScrapeReturns ==
    \E i \in DOMAIN timers :
        /\ timers[i] = "scrape"
        /\ last_run' = "set"
        /\ timers' = [timers EXCEPT ![i] = "finally"]
        /\ UNCHANGED <<running, cur_timer, next_run, httpPc, httpRet>>
        /\ UNCHANGED <<storeVars, callVars>>

\* A _run without try / finally: the exception ends the thread.
RunScrapeRaises_Unhandled ==
    \E i \in DOMAIN timers :
        /\ timers[i] = "scrape"
        /\ timers' = [timers EXCEPT ![i] = "done"]
        /\ UNCHANGED <<running, cur_timer, last_run, next_run, httpPc, httpRet>>
        /\ UNCHANGED <<storeVars, callVars>>

\* _run: run_scrape raised; the except clause prints and goes on.
RunScrapeRaises ==
    \E i \in DOMAIN timers :
        /\ timers[i] = "scrape"
        /\ timers' = [timers EXCEPT ![i] = "finally"]
        /\ UNCHANGED <<running, cur_timer, last_run, next_run, httpPc, httpRet>>
        /\ UNCHANGED <<storeVars, callVars>>

\* _run, finally: with self._lock: self.running = False
RunFinally ==
    \E i \in DOMAIN timers :
        /\ timers[i] = "finally"
        /\ running' = FALSE
        /\ timers' = [timers EXCEPT ![i] = "schedule"]
        /\ UNCHANGED <<cur_timer, last_run, next_run, httpPc, httpRet>>
        /\ UNCHANGED <<storeVars, callVars>>

\* _run, finally: self._schedule_next()
RunSchedule ==
    \E i \in DOMAIN timers :
        /\ timers[i] = "schedule"
        /\ _schedule_next([timers EXCEPT ![i] = "done"])
        /\ UNCHANGED <<running, last_run, httpPc, httpRet>>
        /\ UNCHANGED <<storeVars, callVars>>

\* run_now: the early return under the lock.
RunNowRejected ==
    /\ httpPc = "idle"
    /\ timers # <<>>
    /\ running
    /\ httpRet' = "already_running"
    /\ httpPc' = "respond"
    /\ UNCHANGED <<running, cur_timer, timers, last_run, next_run>>
    /\ UNCHANGED <<storeVars, callVars>>

\* run_now: the flag was clear; it is set under the lock and run_scrape starts.
RunNowAccepted ==
    /\ httpPc = "idle"
    /\ timers # <<>>
    /\ ~running
    /\ Len(timers) + OwedSchedules < MaxTimers
    /\ running' = TRUE
    /\ httpPc' = "scrape"
    /\ UNCHANGED <<cur_timer, timers, last_run, next_run, httpRet>>
    /\ UNCHANGED <<storeVars, callVars>>

RunNowScrapeReturns ==
    /\ httpPc = "scrape"
    /\ last_run' = "set"
    /\ httpRet' = "ok"
    /\ httpPc' = "finally"
    /\ UNCHANGED <<running, cur_timer, timers, next_run>>
    /\ UNCHANGED <<storeVars, callVars>>

RunNowScrapeRaises ==
    /\ httpPc = "scrape"
    /\ httpRet' = "error"
    /\ httpPc' = "finally"
    /\ UNCHANGED <<running, cur_timer, timers, last_run, next_run>>
    /\ UNCHANGED <<storeVars, callVars>>

\* run_now, finally: with self._lock: self.running = False
RunNowFinally ==
    /\ httpPc = "finally"
    /\ running' = FALSE
    /\ httpPc' = "cancel"
    /\ UNCHANGED <<cur_timer, timers, last_run, next_run, httpRet>>
    /\ UNCHANGED <<storeVars, callVars>>

\* run_now, finally: if self._timer: self._timer.cancel()
RunNowCancel ==
    /\ httpPc = "cancel"
    /\ timers' = IF cur_timer # 0 /\ timers[cur_timer] = "pending"
                 THEN [timers EXCEPT ![cur_timer] = "cancelled"] ELSE timers
    /\ httpPc' = "schedule"
    /\ UNCHANGED <<running, cur_timer, last_run, next_run, httpRet>>
    /\ UNCHANGED <<storeVars, callVars>>

\* run_now, finally: self._schedule_next(); then the return value goes out.
RunNowSchedule ==
    /\ httpPc = "schedule"
    /\ _schedule_next(timers)
    /\ httpPc' = "respond"
    /\ UNCHANGED <<running, last_run, httpRet>>
    /\ UNCHANGED <<storeVars, callVars>>

\* do_POST: self._json(scheduler.run_now()); the request thread is free again.
Respond ==
    /\ httpPc = "respond"
    /\ httpPc' = "idle"
    /\ httpRet' = None
    /\ UNCHANGED <<running, cur_timer, timers, last_run, next_run>>
    /\ UNCHANGED <<storeVars, callVars>>

SchedNext ==
    \/ Start
    \/ TimerFires
    \/ RunEnter
    \/ RunScrapeReturns
    \/ RunScrapeRaises
    \/ RunFinally
    \/ RunSchedule
    \/ RunNowRejected
    \/ RunNowAccepted
    \/ RunNowScrapeReturns
    \/ RunNowScrapeRaises
    \/ RunNowFinally
    \/ RunNowCancel
    \/ RunNowSchedule
    \/ Respond

SchedSpec == Init /\ [][SchedNext]_vars

\* C1: at most one ingestion pass (call of run_scrape) is in flight at any
\* moment, whatever the interleaving of run_now calls and timer firings.
AtMostOnePassInFlight == InFlight <= 1

\* C6: run_now invoked while a pass is in flight returns the "already in
\* progress" result and changes neither the running flag, nor the timers,
\* nor last_run / next_run, and does not start run_scrape.
RunNowRejectsWhilePassInFlight ==
    [][(httpPc = "idle" /\ httpPc' # "idle" /\ InFlight >= 1)
         => /\ httpPc' = "respond"
            /\ httpRet' = "already_running"
            /\ UNCHANGED <<running, cur_timer, timers, last_run, next_run>>]_vars

(***************************************************************************)
(* Properties of the store.                                                *)
(***************************************************************************)
HasMention(store, id) == \E k \in BagToSet(store.mentions) : k[1] = id
HasPostEffect(store, id) ==
    \E k \in BagToSet(store.side_effects) : k[1] = "post" /\ k[2] = id

\* Posts that save_posts_to_db has observed and that no legacy migration created.
Observed(store) == {id \in DOMAIN store.last_obs : id \notin store.legacy}

StoredText(store, id) == JoinText(store.posts[id].title, store.posts[id].selftext)

\* C2: a post that carries a crosspost_parent in every observation never has
\* a row in mentions nor a 'post' row in side_effects, whatever batches,
\* backfills and comment scrapes have run.
CrosspostsNeverTagged ==
    \A id \in Observed(db) :
        CrosspostParentOf[id] # None => ~HasMention(db, id) /\ ~HasPostEffect(db, id)

\* C3: a post observed by save_posts_to_db has one row, and its
\* engagement_score is the maximum of compute_engagement over all its
\* observations (so it never decreases).
EngagementIsHighWaterMark ==
    \A id \in Observed(db) :
        /\ id \in DOMAIN db.posts
        /\ db.posts[id].engagement_score = db.seen_eng[id]

\* A stored engagement above what the latest observation computes: a lower
\* reading came after a higher one.
EngagementKeptAboveLatest ==
    \E id \in Observed(db) :
        db.posts[id].engagement_score
            > compute_engagement(db.posts[id].score, db.posts[id].num_comments)

\* C4: a save_posts_to_db call that raised partway never leaves part of its
\* batch visible to a later read of the committed store.
NoPartialBatchVisible == db.torn = {}

\* A successful save_posts_to_db call: its scrape_runs row was appended.
SavePostsReturned ==
    /\ ret'.op = "save_posts"
    /\ ~ret'.raised
    /\ Len(db'.scrape_runs) = Len(tx.scrape_runs) + 1

\* C5: save_posts_to_db returns the number of posts of the batch whose id
\* was absent from posts before being processed.
ReturnsNewlyCreatedCount ==
    [][SavePostsReturned =>
          ret'.new_count = Cardinality(DOMAIN db'.posts \ DOMAIN tx.posts)]_vars

\* C7: once a stored post's sort_source is 'hot' it stays 'hot'.
HotIsStable ==
    [][\A id \in DOMAIN db.posts :
          db.posts[id].sort_source = "hot"
              => id \in DOMAIN db'.posts /\ db'.posts[id].sort_source = "hot"]_vars

\* A post stored as 'hot' whose latest observation came from the 'new' listing.
HotSurvivedNewObservation ==
    \E id \in Observed(db) :
        db.posts[id].sort_source = "hot" /\ db.last_obs[id].sort_source = "new"

\* C8: after save_posts_to_db has processed an observation of a post, the
\* stored score, num_comments and sentiment are those of the post's latest
\* observation.
LastWriteWins ==
    (ret.op = "save_posts" /\ ~ret.raised) =>
        \A id \in ret.ids :
            /\ db.posts[id].score = db.last_obs[id].score
            /\ db.posts[id].num_comments = db.last_obs[id].num_comments
            /\ db.posts[id].sentiment = db.last_obs[id].sentiment

\* The call just made updated a row whose text came from an earlier, different
\* observation.
UpdatedStoredPost ==
    /\ ret.op = "save_posts"
    /\ ~ret.raised
    /\ \E id \in ret.ids :
          /\ db.posts[id].sentiment # score_sentiment(StoredText(db, id))
          /\ db.posts[id].num_comments = 0
          /\ db.posts[id].engagement_score > 64

\* C9: mentions and side_effects only grow, and hold one row per key.
MentionsAndEffectsOnlyGrow ==
    [][/\ \A k \in BagToSet(db.mentions) : BagIn(k, db'.mentions)
       /\ \A k \in BagToSet(db.side_effects) : BagIn(k, db'.side_effects)
       /\ \A k \in BagToSet(db'.mentions) : CopiesIn(k, db'.mentions) = 1
       /\ \A k \in BagToSet(db'.side_effects) : CopiesIn(k, db'.side_effects) = 1]_vars

\* Rows written by every kind of writer: a post's own mention and effect, a
\* comment's mention and effect, after the post was observed again.
TagsFromPostsAndComments ==
    /\ \E k \in BagToSet(db.mentions) : k[2] = "Depo-Provera" /\ k[1] \notin db.legacy
    /\ \E k \in BagToSet(db.mentions) : k[2] = "IUD (general)"
    /\ \E k \in BagToSet(db.side_effects) : k[1] = "comment"
    /\ \E k \in BagToSet(db.side_effects) : k[1] = "post"
    /\ Len(db.scrape_runs) >= 2

\* The store without the posts row id.
RemovePost(store, id) ==
    [store EXCEPT !.posts = [i \in DOMAIN store.posts \ {id} |-> store.posts[i]]]

Dates == {NoDate, Day, 2 * Day}

AllQueries(store, date_from, date_to) ==
    <<query_mention_counts(store, date_from, date_to, None),
      query_daily_counts(store, date_from, date_to, None),
      query_sentiment_by_type(store, date_from, date_to, None),
      query_side_effects_by_contraceptive(store, date_from, date_to, None)>>

\* C10: the window of every aggregation query is half-open: a post created
\* exactly at date_from is counted, a post created exactly at date_to is not.
WindowIsHalfOpen ==
    \A id \in DOMAIN db.posts, date_from \in Dates, date_to \in Dates :
        LET t == db.posts[id].created_utc
        IN /\ (date_to # NoDate /\ t = date_to)
                => AllQueries(db, date_from, date_to)
                     = AllQueries(RemovePost(db, id), date_from, date_to)
           /\ (date_from # NoDate /\ t = date_from /\ (date_to = NoDate \/ t < date_to)
                 /\ HasMention(db, id))
                => query_mention_counts(db, date_from, date_to, None)
                     # query_mention_counts(RemovePost(db, id), date_from, date_to, None)

(***************************************************************************)
(* The text functions called directly: the argument is a text of at most   *)
(* MaxLen tokens, each call leaves its result in out.                      *)
(***************************************************************************)

\* An explainer whose neutral tokens leave the pending modifiers in place.
ExplainStep_KeepsModifiers(st, word) ==
    LET polar(role, sign, p, n) ==
            [pos |-> p, neg |-> n, negate |-> FALSE, intensify |-> 2,
             steps |-> Append(st.steps,
                 [word |-> word, role |-> role, effect |-> sign * st.intensify,
                  running_pos |-> p, running_neg |-> n])]
    IN IF word \in _NEGATORS THEN
           [st EXCEPT !.negate = TRUE,
                      !.steps = Append(@, [word |-> word, role |-> "negator",
                                           effect |-> "flips next word"])]
       ELSE IF word \in _INTENSIFIERS THEN
           [st EXCEPT !.intensify = 3,
                      !.steps = Append(@, [word |-> word, role |-> "intensifier",
                                           effect |-> "1.5x next word"])]
       ELSE IF word \in _POSITIVE_WORDS THEN
           IF st.negate
           THEN polar("positive (negated)", -1, st.pos, st.neg + st.intensify)
           ELSE polar("positive", 1, st.pos + st.intensify, st.neg)
       ELSE IF word \in _NEGATIVE_WORDS THEN
           IF st.negate
           THEN polar("negative (negated)", 1, st.pos + st.intensify, st.neg)
           ELSE polar("negative", -1, st.pos, st.neg + st.intensify)
       ELSE st

\* One iteration of the loop of explain_sentiment, with the step it appends.
\* effect is the signed doubled tally delta of a polarity word.
ExplainStep(st, word) ==
    LET polar(role, sign, p, n) ==
            [pos |-> p, neg |-> n, negate |-> FALSE, intensify |-> 2,
             steps |-> Append(st.steps,
                 [word |-> word, role |-> role, effect |-> sign * st.intensify,
                  running_pos |-> p, running_neg |-> n])]
    IN IF word \in _NEGATORS THEN
           [st EXCEPT !.negate = TRUE,
                      !.steps = Append(@, [word |-> word, role |-> "negator",
                                           effect |-> "flips next word"])]
       ELSE IF word \in _INTENSIFIERS THEN
           [st EXCEPT !.intensify = 3,
                      !.steps = Append(@, [word |-> word, role |-> "intensifier",
                                           effect |-> "1.5x next word"])]
       ELSE IF word \in _POSITIVE_WORDS THEN
           IF st.negate
           THEN polar("positive (negated)", -1, st.pos, st.neg + st.intensify)
           ELSE polar("positive", 1, st.pos + st.intensify, st.neg)
       ELSE IF word \in _NEGATIVE_WORDS THEN
           IF st.negate
           THEN polar("negative (negated)", 1, st.pos + st.intensify, st.neg)
           ELSE polar("negative", -1, st.pos, st.neg + st.intensify)
       ELSE [st EXCEPT !.negate = FALSE, !.intensify = 2]

RECURSIVE ExplainRun(_, _)
ExplainRun(st, words) ==
    IF words = <<>> THEN st
    ELSE ExplainRun(ExplainStep(st, Head(words)), Tail(words))

\* The score is round(raw, 3), kept in thousandths; None is NoneSent.
explain_sentiment(text) ==
    LET words == Words(text)
        st == ExplainRun([pos |-> 0, neg |-> 0, negate |-> FALSE, intensify |-> 2,
                          steps |-> <<>>], words)
        total == st.pos + st.neg
    IN IF words = <<>> THEN [score |-> NoneSent, steps |-> <<>>]
       ELSE IF total = 0 THEN [score |-> NoneSent, steps |-> st.steps, pos |-> 0, neg |-> 0]
       ELSE [score |-> <<Round3(Clamp(st.pos - st.neg, total)[1],
                                Clamp(st.pos - st.neg, total)[2]), 1000>>,
             pos |-> st.pos, neg |-> st.neg, steps |-> st.steps]

\* The loop variables of explain_sentiment after each token of text.
ExplainTrace(text) ==
    LET words == Words(text)
        at(n) == ExplainRun([pos |-> 0, neg |-> 0, negate |-> FALSE, intensify |-> 2,
                             steps |-> <<>>], SubSeq(words, 1, n))
    IN [n \in 1..Len(words) |->
            [pos |-> at(n).pos, neg |-> at(n).neg,
             negate |-> at(n).negate, intensify |-> at(n).intensify]]

\* The loop variables of score_sentiment after each token of text.
SentimentTrace(text) ==
    LET words == Words(text)
    IN [n \in 1..Len(words) |-> SentimentRun(SentimentInit, SubSeq(words, 1, n))]

TextWords == {"love", "pain", "not", "very", "it", "iud", "mirena", NL}

Texts == UNION {[1..n -> TextWords] : n \in 0..MaxLen}

TextInit ==
    /\ StoreInit
    /\ SchedInit
    /\ arg \in Texts
    /\ out = NoCall

\* score_sentiment(arg); pos and neg are pos_score and neg_score at the return.
ScoreSentiment ==
    /\ out' = [op |-> "score_sentiment", value |-> score_sentiment(arg),
               pos |-> SentimentRun(SentimentInit, Words(arg)).pos,
               neg |-> SentimentRun(SentimentInit, Words(arg)).neg]
    /\ UNCHANGED <<storeVars, schedVars, arg>>

FindMentions ==
    /\ out' = [op |-> "find_mentions", value |-> find_mentions(arg)]
    /\ UNCHANGED <<storeVars, schedVars, arg>>

ExplainSentiment ==
    /\ out' = [op |-> "explain_sentiment", value |-> explain_sentiment(arg),
               trace |-> ExplainTrace(arg)]
    /\ UNCHANGED <<storeVars, schedVars, arg>>

TextNext ==
    \/ ScoreSentiment
    \/ FindMentions
    \/ ExplainSentiment

TextSpec == TextInit /\ [][TextNext]_vars

Polarity == _POSITIVE_WORDS \cup _NEGATIVE_WORDS
Modifiers == _NEGATORS \cup _INTENSIFIERS

\* C15: a score returned by score_sentiment lies in [-1, 1], and the result
\* is None exactly when no token of the text is in the positive or the
\* negative lexicon, whatever negators and intensifiers surround them.
ScoreInRangeOrNoSignal ==
    out.op = "score_sentiment" =>
        LET v == out.value
            words == Words(arg)
        IN /\ v # NoneSent => v[2] > 0 /\ 0 - v[2] <= v[1] /\ v[1] <= v[2]
           /\ v = NoneSent <=> \A i \in 1..Len(words) : words[i] \notin Polarity

\* A negated polarity word behind an intensifier was scored.
ScoredNegatedWord ==
    /\ out.op = "score_sentiment"
    /\ out.value = <<-1, 1>>
    /\ \E i \in 1..Len(arg) : arg[i] \in _NEGATORS
    /\ \E i \in 1..Len(arg) : arg[i] \in _POSITIVE_WORDS
    /\ \A i \in 1..Len(arg) : arg[i] \notin _NEGATIVE_WORDS

\* C16: find_mentions never returns 'IUD (general)' together with a specific
\* IUD brand, wherever the brand term stands relative to the generic term.
GenericIudExcludesBrand ==
    out.op = "find_mentions" =>
        ~("IUD (general)" \in out.value /\ "Mirena" \in out.value)

\* C18: explain_sentiment returns one step per token, in token order, each
\* with one of the five roles and the running totals after the token.
ExplainHasOneStepPerToken ==
    out.op = "explain_sentiment" =>
        LET steps == out.value.steps
            words == Words(arg)
        IN /\ Len(steps) = Len(words)
           /\ \A i \in 1..Len(steps) :
                 /\ steps[i].word = words[i]
                 /\ steps[i].role \in {"positive", "negative", "negator",
                                       "intensifier", "neutral"}
                 /\ {"running_pos", "running_neg"} \subseteq DOMAIN steps[i]

\* Is the polarity token words[i] reached by a negator (an intensifier): does
\* one stand before it with nothing but modifiers in between?
ReachedBy(words, i, lexicon) ==
    \E k \in 1..(i - 1) :
        /\ words[k] \in lexicon
        /\ \A m \in k..(i - 1) : words[m] \in Modifiers

\* The doubled tally the claim assigns to side (TRUE positive, FALSE negative)
\* over the tokens 1..n.
RECURSIVE ClaimedTally(_, _, _)
ClaimedTally(words, n, side) ==
    IF n = 0 THEN 0
    ELSE LET w == words[n]
             flipped == ReachedBy(words, n, _NEGATORS)
             weight == IF ReachedBy(words, n, _INTENSIFIERS) THEN 3 ELSE 2
             counts == /\ w \in Polarity
                       /\ side = ((w \in _POSITIVE_WORDS) # flipped)
         IN ClaimedTally(words, n - 1, side) + (IF counts THEN weight ELSE 0)

\* C20: a negator or intensifier affects a polarity token exactly when only
\* modifiers stand between them; modifiers accumulate, an ordinary token
\* resets both, a polarity token consumes both.
ModifiersReachAcrossModifiersOnly ==
    out.op = "score_sentiment" =>
        LET words == Words(arg)
        IN /\ out.pos = ClaimedTally(words, Len(words), TRUE)
           /\ out.neg = ClaimedTally(words, Len(words), FALSE)

\* An intensifier reached a polarity word across a negator.
IntensifiedAcrossNegator ==
    /\ out.op = "score_sentiment"
    /\ Len(arg) = 3
    /\ arg[1] \in _INTENSIFIERS /\ arg[2] \in _NEGATORS /\ arg[3] \in _POSITIVE_WORDS
    /\ out.neg = 3

(***************************************************************************)
(* compute_engagement called directly on vote and comment counts of either *)
(* sign.  In the encoding 2^(2e) a score e >= 0 is a value >= 1, and e = 0 *)
(* is the value 1.                                                         *)
(***************************************************************************)
Counts == (0 - MaxCount)..MaxCount

EngagementInit ==
    /\ StoreInit
    /\ SchedInit
    /\ arg \in [score : Counts, num_comments : Counts]
    /\ out = NoCall

ComputeEngagement ==
    /\ out' = [op |-> "compute_engagement",
               value |-> compute_engagement(arg.score, arg.num_comments)]
    /\ UNCHANGED <<storeVars, schedVars, arg>>

EngagementNext == ComputeEngagement

EngagementSpec == EngagementInit /\ [][EngagementNext]_vars

\* C19: for all integer vote and comment counts, zero and negative included,
\* compute_engagement is >= 0, is 0 when both counts are <= 1, and does not
\* decrease when either count grows.
EngagementFlooredAndMonotone ==
    out.op = "compute_engagement" =>
        /\ out.value >= 1
        /\ (arg.score <= 1 /\ arg.num_comments <= 1) => out.value = 1
        /\ \A s \in Counts, n \in Counts :
              (s >= arg.score /\ n >= arg.num_comments)
                  => compute_engagement(s, n) >= out.value

\* A negative vote count with no comments scored 0.
EngagementOfNegativeVotes ==
    /\ out.op = "compute_engagement"
    /\ arg.score < 0
    /\ arg.num_comments = 0
    /\ out.value = 1

(***************************************************************************)
(* The aggregation queries called directly on a store that run_scrape has  *)
(* filled: up to three posts in two communities, written by                *)
(* save_posts_to_db.  arg is the filter of the call.                       *)
(***************************************************************************)
QueryPostIds == <<"q1", "q2", "q3">>

QueryCreatedOf == [id \in {"q1", "q2", "q3"} |-> IF id = "q3" THEN 2 * Day ELSE Day]

QuerySubredditOf ==
    [id \in {"q1", "q2", "q3"} |-> IF id = "q3" THEN SUBREDDITS[2] ELSE SUBREDDITS[1]]

Absent == [title |-> <<>>, selftext |-> <<>>, score |-> 0, num_comments |-> 0]

QueryContents ==
    {[title |-> <<"mirena">>, selftext |-> <<"love", "it">>, score |-> 4, num_comments |-> 2],
     [title |-> <<"depo">>, selftext |-> <<"pain">>, score |-> 4, num_comments |-> 2],
     [title |-> <<"mirena", "depo">>, selftext |-> <<"very", "love", "pain">>,
      score |-> 4, num_comments |-> 2],
     [title |-> <<"mirena">>, selftext |-> <<"it">>, score |-> 4, num_comments |-> 2]}

QueryPost(id, content) ==
    [id |-> id, title |-> content.title, selftext |-> content.selftext,
     created_utc |-> QueryCreatedOf[id], score |-> content.score,
     num_comments |-> content.num_comments, permalink |-> "/r/x",
     subreddit |-> QuerySubredditOf[id], sort_source |-> "new",
     crosspost_parent |-> None]

\* The posts scrape_subreddit returned for one community, in listing order.
QueryListing(assign, subreddit) ==
    LET ids == SelectSeq(QueryPostIds,
                         LAMBDA id : QuerySubredditOf[id] = subreddit /\ assign[id] # Absent)
    IN [i \in 1..Len(ids) |-> QueryPost(ids[i], assign[ids[i]])]

\* The loop of run_scrape over SUBREDDITS: a community without posts is skipped.
RECURSIVE QueryStore(_, _, _)
QueryStore(store, assign, i) ==
    IF i > Len(SUBREDDITS) THEN store
    ELSE LET posts == QueryListing(assign, SUBREDDITS[i])
             saved == IF posts = <<>> THEN store
                      ELSE save_posts_to_db(store, IF i = 1 THEN 0 ELSE 1, posts,
                                            analyze_posts(posts), SUBREDDITS[i]).store
         IN QueryStore(saved, assign, i + 1)

QueryStores ==
    {QueryStore(get_db_schema, assign, 1) :
        assign \in [{"q1", "q2", "q3"} -> QueryContents \cup {Absent}]}

QueryFilters == [date_from : Dates, date_to : Dates, subreddit : {None, SUBREDDITS[1]}]

QueryInit ==
    /\ db \in QueryStores
    /\ tx = db
    /\ lastrowid = 1
    /\ ret = Idle
    /\ SchedInit
    /\ arg \in QueryFilters
    /\ out = NoCall

\* ORDER BY cnt DESC: every list of the rows in which no count is followed by
\* a larger one; SQL leaves the order of rows with equal counts open.
MentionCountLists(store, date_from, date_to, subreddit) ==
    LET counts == query_mention_counts(store, date_from, date_to, subreddit)
    IN {q \in Orderings({<<c, counts[c]>> : c \in DOMAIN counts}) :
           \A i, j \in 1..Len(q) : i < j => q[i][2] >= q[j][2]}

\* AVG(p.sentiment) of the rows of one category, before round(, 3).
MeanSentiment(store, date_from, date_to, subreddit, c) ==
    LET crows == {k \in JoinedMentions(store, date_from, date_to, subreddit) :
                     store.posts[k[1]].sentiment # NoneSent /\ k[2] = c}
        total == SumFractions(crows, [k \in crows |-> store.posts[k[1]].sentiment],
                              [k \in crows |-> CopiesIn(k, store.mentions)])
    IN <<total[1], total[2] * CountRows(store.mentions, crows)>>

\* ORDER BY avg_s DESC; each row is <<contraceptive, round(avg_s, 3), cnt>>.
SentimentByTypeLists(store, date_from, date_to, subreddit) ==
    LET res == query_sentiment_by_type(store, date_from, date_to, subreddit)
        mean(c) == MeanSentiment(store, date_from, date_to, subreddit, c)
    IN {q \in Orderings({<<c, res[c].avg_s, res[c].cnt>> : c \in DOMAIN res}) :
           \A i, j \in 1..Len(q) :
               i < j => mean(q[i][1])[1] * mean(q[j][1])[2]
                          >= mean(q[j][1])[1] * mean(q[i][1])[2]}

QueryMentionCounts ==
    /\ \E rows \in MentionCountLists(db, arg.date_from, arg.date_to, arg.subreddit) :
          out' = [op |-> "query_mention_counts", value |-> rows]
    /\ UNCHANGED <<storeVars, schedVars, arg>>

QueryDailyCounts ==
    /\ out' = [op |-> "query_daily_counts",
               value |-> query_daily_counts(db, arg.date_from, arg.date_to, arg.subreddit)]
    /\ UNCHANGED <<storeVars, schedVars, arg>>

QuerySentimentByType ==
    /\ \E rows \in SentimentByTypeLists(db, arg.date_from, arg.date_to, arg.subreddit) :
          out' = [op |-> "query_sentiment_by_type", value |-> rows]
    /\ UNCHANGED <<storeVars, schedVars, arg>>

QueryNext ==
    \/ QueryMentionCounts
    \/ QueryDailyCounts
    \/ QuerySentimentByType

QuerySpec == QueryInit /\ [][QueryNext]_vars

\* The category names in ascending order.
CategoryRank == [c \in CONTRACEPTIVES |->
                    CASE c = "Depo-Provera" -> 1
                      [] c = "IUD (general)" -> 2
                      [] c = "Mirena" -> 3]

\* C11: query_mention_counts lists the categories by count descending, and
\* categories with equal counts in ascending name order.
MentionCountsTiesByName ==
    out.op = "query_mention_counts" =>
        \A i, j \in 1..Len(out.value) :
            i < j => \/ out.value[i][2] > out.value[j][2]
                     \/ /\ out.value[i][2] = out.value[j][2]
                        /\ CategoryRank[out.value[i][1]] < CategoryRank[out.value[j][1]]

\* The posts of the store that match category c, lie inside the filter and
\* have a sentiment.
QualifyingPosts(c) ==
    {id \in DOMAIN db.posts :
        /\ BagIn(<<id, c>>, db.mentions)
        /\ db.posts[id].sentiment # NoneSent
        /\ DateFilter(db.posts[id].created_utc, arg.date_from, arg.date_to)
        /\ SubredditFilter(db.posts[id].subreddit, arg.subreddit)}

\* The sum of the sentiments of a set of posts, as a fraction.
RECURSIVE SentimentSum(_)
SentimentSum(ids) ==
    IF ids = {} THEN <<0, 1>>
    ELSE LET id == CHOOSE x \in ids : TRUE
             r == SentimentSum(ids \ {id})
             f == db.posts[id].sentiment
         IN <<r[1] * f[2] + f[1] * r[2], r[2] * f[2]>>

\* The mean of the sentiments of the posts qualifying for c.
QualifyingMean(c) ==
    LET t == SentimentSum(QualifyingPosts(c))
    IN <<t[1], t[2] * Cardinality(QualifyingPosts(c))>>

\* C13: query_sentiment_by_type returns exactly the categories with at least
\* 2 qualifying posts, each with the mean sentiment of those posts, in
\* descending order of the mean.
SentimentByTypeNeedsTwo ==
    out.op = "query_sentiment_by_type" =>
        /\ {r[1] : r \in {out.value[i] : i \in 1..Len(out.value)}}
              = {c \in CONTRACEPTIVES : Cardinality(QualifyingPosts(c)) >= 2}
        /\ \A i \in 1..Len(out.value) :
              /\ out.value[i][3] = Cardinality(QualifyingPosts(out.value[i][1]))
              /\ out.value[i][2] = Round3(QualifyingMean(out.value[i][1])[1],
                                          QualifyingMean(out.value[i][1])[2])
        /\ \A i, j \in 1..Len(out.value) :
              i < j => QualifyingMean(out.value[i][1])[1] * QualifyingMean(out.value[j][1])[2]
                         >= QualifyingMean(out.value[j][1])[1] * QualifyingMean(out.value[i][1])[2]

\* One category was reported with a mean strictly between 0 and 1, while
\* another had a single qualifying post and was left out.
MeanReportedSingleLeftOut ==
    /\ out.op = "query_sentiment_by_type"
    /\ Len(out.value) = 1
    /\ out.value[1][2] > 0 /\ out.value[1][2] < 1000
    /\ \E c \in CONTRACEPTIVES : Cardinality(QualifyingPosts(c)) = 1

\* The days on which some post inside the filter has a mention.
DaysWithMatches ==
    {DayOf(db.posts[k[1]].created_utc) :
        k \in {m \in BagToSet(db.mentions) :
                  /\ m[1] \in DOMAIN db.posts
                  /\ db.posts[m[1]].created_utc > 0
                  /\ DateFilter(db.posts[m[1]].created_utc, arg.date_from, arg.date_to)
                  /\ SubredditFilter(db.posts[m[1]].subreddit, arg.subreddit)}}

\* C14: query_daily_counts has no zero entry: every day key has a category,
\* every count is >= 1, and a day without a matching item has no key.
DailyCountsOmitEmptyDays ==
    out.op = "query_daily_counts" =>
        /\ DOMAIN out.value = DaysWithMatches
        /\ \A d \in DOMAIN out.value :
              /\ DOMAIN out.value[d] # {}
              /\ \A c \in DOMAIN out.value[d] : out.value[d][c] >= 1

\* One day is reported while the day of another stored post, which has no
\* matching item inside the filter, is not.
DayWithoutMatchesOmitted ==
    /\ out.op = "query_daily_counts"
    /\ DOMAIN out.value # {}
    /\ \E id \in DOMAIN db.posts : DayOf(db.posts[id].created_utc) \notin DOMAIN out.value

\* The count the claim gives for the pair (c, e) under a filter: the posts
\* tagged e with a mention row for c, plus the comments tagged e whose parent
\* post has a mention row for c.
ClaimedHeatmapCount(c, e, date_from, date_to, subreddit) ==
    Cardinality({id \in DOMAIN db.posts :
                    /\ BagIn(<<"post", id, e>>, db.side_effects)
                    /\ BagIn(<<id, c>>, db.mentions)
                    /\ DateFilter(db.posts[id].created_utc, date_from, date_to)
                    /\ SubredditFilter(db.posts[id].subreddit, subreddit)})
      + Cardinality({cid \in DOMAIN db.comments :
                        /\ BagIn(<<"comment", cid, e>>, db.side_effects)
                        /\ BagIn(<<db.comments[cid].post_id, c>>, db.mentions)
                        /\ DateFilter(db.comments[cid].created_utc, date_from, date_to)
                        /\ db.comments[cid].post_id \in DOMAIN db.posts
                        /\ SubredditFilter(db.posts[db.comments[cid].post_id].subreddit,
                                           subreddit)})

HeatmapGet(res, c, e) == IF <<c, e>> \in DOMAIN res THEN res[<<c, e>>] ELSE 0

\* The categories a post has by itself: those of the texts it can be observed
\* with, and those a legacy import gave it.
OwnCategories(id) ==
    UNION {find_mentions(JoinText(content.title, content.selftext)) : content \in Contents}
      \cup (IF id \in db.legacy
            THEN UNION {{day.top_posts[i].ctype : i \in 1..Len(day.top_posts)} :
                           day \in LegacyDays}
            ELSE {})

\* C12: for each category c and side effect e the heatmap reports the posts
\* tagged e with a mention row for c plus the comments tagged e whose parent
\* has a mention row for c, each filtered by its own timestamp and the
\* (parent) post's community; a comment's own text gives it no category.
HeatmapCountsThroughParent ==
    /\ \A date_from \in Dates, date_to \in Dates, subreddit \in {None, SUBREDDITS[1]} :
          LET res == query_side_effects_by_contraceptive(db, date_from, date_to, subreddit)
          IN \A c \in CONTRACEPTIVES, e \in SIDE_EFFECTS :
                HeatmapGet(res, c, e) = ClaimedHeatmapCount(c, e, date_from, date_to, subreddit)
    /\ \A r \in HeatmapCommentRows(db, NoDate, NoDate, None) :
          r[1] \in find_mentions(db.comments[r[3]].body)
              => r[1] \in OwnCategories(db.comments[r[3]].post_id)

(***************************************************************************)
(* run_scrape, one step per iteration of its loop over SUBREDDITS.  arg    *)
(* fixes, per community, what the first fetch_json call of the 'new'       *)
(* listing does, which posts the listing holds, and whether the 'hot'      *)
(* listing returns the same posts or none.  out holds the locals of        *)
(* run_scrape.                                                             *)
(***************************************************************************)
FetchOutcomes == {"ok", "http_error", "network_error", "bad_json"}

\* scrape_subreddit: HTTPError and URLError are logged and end the paging loop,
\* any other exception of fetch_json leaves the function.
scrape_subreddit(outcome, listing, sort) ==
    CASE outcome = "ok" ->
            [raised |-> FALSE,
             posts |-> [i \in 1..Len(listing) |-> [listing[i] EXCEPT !.sort_source = sort]]]
      [] outcome \in {"http_error", "network_error"} -> [raised |-> FALSE, posts |-> <<>>]
      [] OTHER -> [raised |-> TRUE, posts |-> <<>>]

\* The item of community i carrying a crosspost_parent reference.
RunCrosspost(i) ==
    [QueryPost(IF i = 1 THEN "q1" ELSE "q3",
               [title |-> <<"mirena">>, selftext |-> <<"love", "it">>,
                score |-> 4, num_comments |-> 2])
        EXCEPT !.crosspost_parent = "par"]

\* for ctypes in mention_map.values(): for c in ctypes: all_mention_counts[c] += 1
CountMentionMap(counts, mention_map) ==
    [c \in CONTRACEPTIVES |->
        counts[c] + Cardinality({id \in DOMAIN mention_map : c \in mention_map[id]})]

RunListings(i) ==
    {<<>>, <<RunCrosspost(i)>>}
        \cup {<<QueryPost(IF i = 1 THEN "q1" ELSE "q3", content)>> :
                    content \in QueryContents}

RunInputs ==
    {a \in [fetch : [1..Len(SUBREDDITS) -> FetchOutcomes],
            listing : [1..Len(SUBREDDITS) -> RunListings(1) \cup RunListings(2)],
            hot : [1..Len(SUBREDDITS) -> BOOLEAN]] :
        \A i \in 1..Len(SUBREDDITS) : a.listing[i] \in RunListings(i)}

RunInit ==
    /\ StoreInit
    /\ SchedInit
    /\ arg \in RunInputs
    /\ out = NoCall

\* get_db, migrate_legacy_json (no legacy file) and the backfill.
RunScrapeBegin ==
    /\ out.op = "none"
    /\ LET c == backfill_sentiment_and_effects(db, 0)
       IN /\ tx' = c.store
          /\ db' = IF c.committed THEN c.store ELSE db
          /\ lastrowid' = c.lastrowid
    /\ ret' = Idle
    /\ out' = [op |-> "run_scrape", i |-> 1, error_count |-> 0, total_new |-> 0,
               all_mention_counts |-> [c \in CONTRACEPTIVES |-> 0],
               processed |-> {}, done |-> FALSE]
    /\ UNCHANGED <<schedVars, arg>>

\* One iteration of the loop over SUBREDDITS.
RunScrapeCommunity ==
    /\ out.op = "run_scrape"
    /\ ~out.done
    /\ out.i <= Len(SUBREDDITS)
    /\ LET i == out.i
           posts_new == scrape_subreddit(arg.fetch[i], arg.listing[i], "new")
           posts_hot == IF posts_new.raised THEN posts_new
                        ELSE scrape_subreddit(arg.fetch[i],
                                              IF arg.hot[i] THEN arg.listing[i] ELSE <<>>,
                                              "hot")
           posts == posts_new.posts \o posts_hot.posts
           next == [out EXCEPT !.i = i + 1, !.processed = @ \cup {i}]
       IN IF posts_new.raised \/ posts_hot.raised
          THEN /\ tx' = save_error_to_db(tx, SUBREDDITS[i], "scrape_failure")
               /\ db' = tx'
               /\ lastrowid' = 1
               /\ ret' = Idle
               /\ out' = [next EXCEPT !.error_count = @ + 1]
          ELSE IF posts = <<>>
          THEN /\ UNCHANGED storeVars
               /\ out' = next
          ELSE LET mention_map == analyze_posts(posts)
                   c == save_posts_to_db(tx, lastrowid, posts, mention_map,
                                         SUBREDDITS[i])
               IN /\ tx' = c.store
                  /\ db' = c.store
                  /\ lastrowid' = c.lastrowid
                  /\ ret' = [op |-> "save_posts", raised |-> FALSE,
                             new_count |-> c.new_count, ids |-> c.written]
                  /\ out' = [next EXCEPT
                                !.total_new = @ + c.new_count,
                                !.all_mention_counts =
                                    CountMentionMap(@, mention_map)]
    /\ UNCHANGED <<schedVars, arg>>

\* scrape_comments_batch (every post without comments), conn.close() and the return.
RunScrapeEnd ==
    /\ out.op = "run_scrape"
    /\ ~out.done
    /\ out.i > Len(SUBREDDITS)
    /\ \E rows \in Orderings(CommentCandidates(tx)) :
          /\ OrderedByCreatedDesc(tx, rows)
          /\ LET c == ScrapeCommentsLoop([store |-> tx, lastrowid |-> lastrowid, new_count |-> 0],
                                         rows, [id \in CommentCandidates(tx) |-> <<>>])
             IN /\ tx' = c.store
                /\ db' = c.store
                /\ lastrowid' = c.lastrowid
    /\ ret' = Idle
    /\ out' = [out EXCEPT !.done = TRUE]
    /\ UNCHANGED <<schedVars, arg>>

RunNext ==
    \/ RunScrapeBegin
    \/ RunScrapeCommunity
    \/ RunScrapeEnd

RunSpec == RunInit /\ [][RunNext]_vars

\* C17: whenever fetching a community fails, an HTTP or network failure
\* inside scrape_subreddit included, run_scrape records a scrape_errors row
\* for that community, counts it in error_count, and still processes every
\* other community.
FetchFailuresRecorded ==
    (out.op = "run_scrape" /\ out.done) =>
        /\ \A i \in 1..Len(SUBREDDITS) :
              arg.fetch[i] # "ok" =>
                  \E k \in 1..Len(db.scrape_errors) :
                      db.scrape_errors[k].subreddit = SUBREDDITS[i]
        /\ out.error_count = Cardinality({i \in 1..Len(SUBREDDITS) : arg.fetch[i] # "ok"})
        /\ out.processed = 1..Len(SUBREDDITS)

(***************************************************************************)
(* explain_sentiment against score_sentiment.                              *)
(***************************************************************************)

\* C21: for every token sequence explain_sentiment and score_sentiment,
\* stepped side by side, hold the same positive tally, negative tally, negate
\* flag and intensity after every token, and explain_sentiment reports a null
\* score exactly when score_sentiment returns None.
ExplainRefinesScore ==
    out.op = "explain_sentiment" =>
        /\ out.trace = SentimentTrace(arg)
        /\ (out.value.score = NoneSent) <=> (score_sentiment(arg) = NoneSent)

\* A text where a negator and an intensifier were pending, an ordinary token
\* dropped them, and a polarity word was then tallied by both functions.
ExplainedAcrossReset ==
    /\ out.op = "explain_sentiment"
    /\ out.value.score # NoneSent
    /\ Len(out.trace) = MaxLen
    /\ \E i \in 1..(Len(out.trace) - 1) :
          /\ out.trace[i].negate
          /\ ~out.trace[i + 1].negate
          /\ out.trace[i + 1].pos + out.trace[i + 1].neg = 0

(***************************************************************************)
(* The scheduler under fair thread scheduling: a thread that has started   *)
(* keeps taking its steps, and run_scrape either returns or raises.  When  *)
(* a Timer expires and when a request arrives is left to the environment.  *)
(***************************************************************************)
TimerAt(i, pcs) == i \in DOMAIN timers /\ timers[i] \in pcs

\* The steps of the thread of Timer i.
TimerThreadStep(i) ==
    /\ i \in DOMAIN timers
    /\ \/ RunEnter
       \/ RunScrapeReturns
       \/ RunScrapeRaises
       \/ RunFinally
       \/ RunSchedule
    /\ timers'[i] # timers[i]

\* The steps of the request thread once run_now holds the flag.
RequestThreadStep ==
    \/ RunNowScrapeReturns
    \/ RunNowScrapeRaises
    \/ RunNowFinally
    \/ RunNowCancel
    \/ RunNowSchedule
    \/ Respond

SchedLiveSpec ==
    /\ Init
    /\ [][SchedNext]_vars
    /\ \A i \in 1..MaxTimers : WF_vars(TimerThreadStep(i))
    /\ WF_vars(RequestThreadStep)

\* A thread leaves run_scrape only into its finally block, the finally block
\* clears the flag, and the thread ends by starting a new pending Timer.
PassEndsThroughFinally ==
    /\ \A i \in DOMAIN timers :
          /\ timers[i] = "scrape" /\ timers'[i] # "scrape" => timers'[i] = "finally"
          /\ timers[i] = "finally" /\ timers'[i] # "finally" =>
                timers'[i] = "schedule" /\ ~running'
          /\ timers[i] # "done" /\ timers'[i] = "done" =>
                /\ timers[i] = "schedule"
                /\ Len(timers') = Len(timers) + 1
                /\ timers'[cur_timer'] = "pending"
    /\ httpPc = "scrape" /\ httpPc' # "scrape" =>
          httpPc' = "finally" /\ httpRet' \in {"ok", "error"}
    /\ httpPc = "finally" /\ httpPc' # "finally" => ~running'
    /\ httpPc # "respond" /\ httpPc' = "respond" /\ httpPc # "idle" =>
          /\ httpPc = "schedule"
          /\ Len(timers') = Len(timers) + 1
          /\ timers'[cur_timer'] = "pending"
          /\ httpRet' = httpRet

\* C22: every pass started by run_now or _run, whether run_scrape returns or
\* raises, eventually ends with the running flag cleared and a next timer
\* scheduled, and an exception of run_scrape never reaches the caller:
\* run_now answers with its result or with {ok: False, error: ...}, _run
\* swallows it.
EveryPassEndsScheduled ==
    /\ \A i \in 1..MaxTimers : TimerAt(i, {"scrape"}) ~> TimerAt(i, {"done"})
    /\ (httpPc = "scrape") ~> (httpPc = "respond" /\ httpRet \in {"ok", "error"})
    /\ [][PassEndsThroughFinally]_vars

\* run_now answers with the error of a run_scrape that raised, a timer pass
\* has ended too, the flag is clear and the newest Timer is pending.
RaisingPassEnded ==
    /\ httpPc = "respond"
    /\ httpRet = "error"
    /\ ~running
    /\ TimerThreadsAt({"done"}) # {}
    /\ timers[cur_timer] = "pending"

\* C23: in the summary returned by run_scrape the mention count of each
\* category counts one piece of content exactly once: an item carrying a
\* crosspost_parent reference is not counted and an item returned by both the
\* 'new' and the 'hot' listing is counted once, so the summary agrees with
\* the mention rows the pass wrote.
SummaryCountsWrittenMentions ==
    (out.op = "run_scrape" /\ out.done) =>
        \A c \in CONTRACEPTIVES :
            out.all_mention_counts[c] =
                Cardinality({k \in BagToSet(db.mentions) : k[2] = c})

(***************************************************************************)
(* Normal use of the store: every operation that writes, none of them      *)
(* failing, in any order.  The queries only read.                          *)
(***************************************************************************)
UseNext ==
    \/ GetDb
    \/ SavePostsToDb(FailBatches)
    \/ ScrapeCommentsBatch
    \/ MigrateLegacyJson
    \/ BackfillSentimentAndEffects
    \/ SaveErrorToDb

UseSpec == Init /\ [][UseNext]_vars

IsPrefix(s, t) == Len(s) <= Len(t) /\ SubSeq(t, 1, Len(s)) = s

RowsKept ==
    /\ DOMAIN db.posts \subseteq DOMAIN db'.posts
    /\ DOMAIN db.comments \subseteq DOMAIN db'.comments
    /\ IsPrefix(db.scrape_runs, db'.scrape_runs)
    /\ IsPrefix(db.scrape_errors, db'.scrape_errors)

\* C24: no operation of normal use deletes a row of posts or comments, and
\* the rows of scrape_runs and scrape_errors are only appended: a row once
\* written is neither updated nor deleted.
NoRowDeletedLogsAppendOnly == [][RowsKept]_vars

\* Every table holds rows, two batches were saved over a migrated store and
\* an error was logged.
AllTablesWritten ==
    /\ Cardinality(DOMAIN db.posts) = Cardinality(PostIds)
    /\ db.comments # <<>>
    /\ db.legacy # {}
    /\ Len(db.scrape_runs) >= 2
    /\ db.scrape_runs[1] # db.scrape_runs[2]
    /\ Len(db.scrape_errors) >= 1

\* C25: Scheduler.status() reports running = true whenever at least one
\* ingestion pass, timer-triggered or manual, is in flight; the end of one
\* pass never clears the flag while another pass is still running.
RunningWhilePassInFlight == InFlight >= 1 => running

\* C26: at every moment at most one Scheduler timer is pending; completed
\* passes never leave two or more scheduled future runs outstanding.
AtMostOneTimerPending == Cardinality(TimerThreadsAt({"pending"})) <= 1

\* C27: in every reachable store state each post's stored sentiment equals
\* score_sentiment applied to that post's stored title and selftext, also
\* after observations in which the item's text changed, and after backfills.
StoredSentimentFromStoredText ==
    \A id \in DOMAIN db.posts :
        db.posts[id].sentiment = score_sentiment(StoredText(db, id))

\* C28: in every reachable store state each mentions row (post, category)
\* written by the classification pipeline is justified by the post's own
\* text: the category is in find_mentions of the stored title and selftext;
\* saving comments for a post never adds a category the post's text does not
\* match.  (Rows of migrated legacy posts come from the legacy file.)
MentionsJustifiedByPostText ==
    \A k \in BagToSet(db.mentions) :
        (k[1] \in DOMAIN db.posts /\ k[1] \notin db.legacy) =>
            k[2] \in find_mentions(StoredText(db, k[1]))

\* The total of category c over all days of a query_daily_counts result.
RECURSIVE DailyTotal(_, _, _)
DailyTotal(daily, days, c) ==
    IF days = {} THEN 0
    ELSE LET d == CHOOSE x \in days : TRUE
         IN (IF c \in DOMAIN daily[d] THEN daily[d][c] ELSE 0)
                + DailyTotal(daily, days \ {d}, c)

\* C29: for every store state and every filter (date_from, date_to,
\* subreddit), no filter included, the per-category totals of
\* query_daily_counts summed over all days equal the counts returned by
\* query_mention_counts for the same filter, also for legacy posts whose
\* creation timestamp is 0.
DailyTotalsEqualMentionCounts ==
    \A date_from \in Dates, date_to \in Dates, subreddit \in {None, SUBREDDITS[1]} :
        LET daily == query_daily_counts(db, date_from, date_to, subreddit)
            counts == query_mention_counts(db, date_from, date_to, subreddit)
        IN \A c \in CONTRACEPTIVES :
              DailyTotal(daily, DOMAIN daily, c)
                  = (IF c \in DOMAIN counts THEN counts[c] ELSE 0)

(***************************************************************************)
(* query_side_effect_counts called on stores written by save_posts_to_db   *)
(* and save_comments_to_db.  posts.id and comments.id are keys of two      *)
(* tables: a comment may carry the identifier string of a post.            *)
(***************************************************************************)
EffectContents ==
    {[title |-> <<"mirena">>, selftext |-> <<"cramping">>, score |-> 4, num_comments |-> 2],
     [title |-> <<"depo">>, selftext |-> <<"love", "it">>, score |-> 4, num_comments |-> 2]}

EffectCommentIds == {"q1", "k1"}

EffectCommentLists ==
    {<<>>} \cup {<<Comment(id, body)>> :
                    id \in EffectCommentIds,
                    body \in {<<"cramping">>, <<"mirena", "cramping">>}}

\* Posts q1 and q3 saved, then the comments fetched for q1.
EffectStore(assign, comments) ==
    LET full == [id \in {"q1", "q2", "q3"} |->
                    IF id \in DOMAIN assign THEN assign[id] ELSE Absent]
        saved == QueryStore(get_db_schema, full, 1)
    IN IF "q1" \in DOMAIN saved.posts
       THEN save_comments_to_db(saved, 1, "q1", comments).store
       ELSE saved

EffectStores ==
    {EffectStore(assign, comments) :
        assign \in [{"q1", "q3"} -> EffectContents \cup {Absent}],
        comments \in EffectCommentLists}

EffectFilters ==
    [date_from : Dates, date_to : Dates, contraceptive : {None, "Mirena"},
     subreddit : {None, SUBREDDITS[1]}]

EffectInit ==
    /\ db \in EffectStores
    /\ tx = db
    /\ lastrowid = 1
    /\ ret = Idle
    /\ SchedInit
    /\ arg \in EffectFilters
    /\ out = NoCall

QuerySideEffectCounts ==
    /\ out' = [op |-> "query_side_effect_counts",
               value |-> query_side_effect_counts(db, arg.date_from, arg.date_to,
                                                  arg.contraceptive, arg.subreddit)]
    /\ UNCHANGED <<storeVars, schedVars, arg>>

EffectNext == QuerySideEffectCounts

EffectSpec == EffectInit /\ [][EffectNext]_vars

\* The tagged items the claim counts for effect e: the (source_type,
\* source_id) pairs of the side_effects rows inside the filter.
TaggedItems(store, filter, e) ==
    {<<k[1], k[2]>> :
        k \in {r \in SideEffectRows(store, filter.date_from, filter.date_to,
                                    filter.contraceptive, filter.subreddit) : r[3] = e}}

\* C30: query_side_effect_counts counts, for each side-effect, the distinct
\* (source_type, source_id) pairs tagged with it inside the filter: a post
\* and a comment sharing one identifier string and one side-effect are two
\* items, not one.
SideEffectCountsDistinctItems ==
    out.op = "query_side_effect_counts" =>
        \A e \in SIDE_EFFECTS :
            (IF e \in DOMAIN out.value THEN out.value[e] ELSE 0)
                = Cardinality(TaggedItems(db, arg, e))

====
